---- MODULE Spec2Model ----
(***************************************************************************)
(* Literature assistant backend: the document ingestion and streaming      *)
(* generation pipeline (app/api/literature.py) with the services it calls. *)
(*                                                                         *)
(* One request is handled per behaviour step sequence: either the          *)
(* single-file endpoint generate_reading_guide or the batch endpoint       *)
(* batch_import_literatures.  The record store is modelled as the          *)
(* committed table db and the view of the request's session sess       *)
(* (committed rows plus flushed, uncommitted changes).  Storage is the set *)
(* disk of stored paths.  Every collaborator call that can fail (file    *)
(* write, parser, flush, commit, provider) fails nondeterministically.     *)
(***************************************************************************)
EXTENDS Integers, Sequences, FiniteSets, TLC

\* ---------------------------------------------------------------- bounds
MaxFiles == 2        \* files in one batch request
MaxFrags == 2        \* content fragments the provider yields during one request
MaxRequests == 2     \* profile management requests, each in a transaction of its own
MaxTags == 7         \* entries of tags in a classification response
MaxDescLen == 300    \* characters of desc in a classification response
MaxContentLen == 30002  \* characters of an extracted document text
MaxChunks == 3       \* chunks read from one remote stream
MaxBytes == 4        \* bytes of a stored Markdown file
MaxPages == 3        \* pages of a PDF file, paragraphs of a Word document
MaxSteps == 5        \* largest steps argument of rollback

\* ------------------------------------------------------ program constants
MAX_FILE_SIZE == 52428800
STATUS_PROCESSING == 0
STATUS_COMPLETED == 1
STATUS_FAILED == 2
MAX_TAGS == 5
MAX_DESCRIPTION_LENGTH == 200
max_content_length == 30000

ALLOWED_EXTENSIONS == {"pdf", "doc", "docx", "md", "markdown"}

\* extensions with a registered parser (PDFParser, WordParser, MarkdownParser)
SupportedExtensions == {"pdf"} \cup {"doc", "docx"} \cup {"md", "markdown"}

\* ------------------------------------------------------------ optionals
Null == <<>>
Some(v) == <<v>>

\* ------------------------------------------------------------------ text
\* A text is a sequence of characters; the text of a JSON document is one
\* element that carries the value the document denotes.
Ch(c) == [c |-> c]

Doc(v) == [c |-> "json", v |-> v]

Chars(n, c) == [i \in 1..n |-> Ch(c)]

\* a text of n characters, all different
Digits(n) == [i \in 1..n |-> Ch(ToString(i))]

\* the code block marker: three backquotes, each written "~" here
Fence == <<Ch("~"), Ch("~"), Ch("~")>>

FenceJson == Fence \o <<Ch("j"), Ch("s"), Ch("o"), Ch("n")>>

\* ---------------------------------------------------------------- inputs
CurrentUser == 1

\* An upload: filename = <<stem, ext>> (<<>> when the part has no name),
\* size in bytes, body = what a parser finds in the bytes.
Upload(fn, sz, body) == [filename |-> fn, size |-> sz, body |-> body]

Uploads ==
  { Upload(<<"paper", "md">>, 500, "text"),       \* well-formed document
    Upload(<<"paper", "MD">>, 500, "corrupt"),    \* blank or corrupt: parser raises
    Upload(<<"tool", "exe">>, 500, "text"),       \* disallowed extension
    Upload(<<"empty", "md">>, 0, "blank"),        \* empty file
    Upload(<<"huge", "pdf">>, MAX_FILE_SIZE + 1, "text"),
    Upload(<<>>, 500, "text") }                   \* no filename

\* text a parser extracts from a well-formed body
ExtractedText == <<"t1", "t2", "t3">>

Fragments == {<<"Hello", " ">>, <<"world">>}

\* seconds of the wall clock at which uploads of one request can arrive
Seconds == {0, 1}

\* a JSON object with keys tags (n entries) and desc (m characters)
ClassObject(n, m) ==
  [kind |-> "object", tags |-> [i \in 1..n |-> ToString(i)], desc |-> Digits(m)]

\* a JSON object whose desc is an array of two strings instead of a string
ListDescObject ==
  [kind |-> "object", tags |-> <<"1">>,
   desc |-> <<[kind |-> "string"], [kind |-> "string"]>>]

\* responses of the classification call (provider.generate): a text, or the
\* call raises
ClassResponses ==
  { [kind |-> "content", content |-> <<Doc(ClassObject(MAX_TAGS + 1, 1))>>],
    [kind |-> "content", content |-> Chars(2, "x")],
    [kind |-> "content", content |-> <<Doc(ListDescObject)>>],
    [kind |-> "error"] }

\* the fixed fallback description, as one element
FallbackDescription == <<Ch("AI generated description")>>

\* texts the classification call can return: a JSON document, bare or in a
\* fenced code block, with or without surrounding whitespace
Wrap(lead, open, close, body) ==
  lead \o open \o (IF open # <<>> THEN <<Ch("\n")>> ELSE <<>>) \o body
       \o (IF close # <<>> THEN <<Ch("\n")>> ELSE <<>>) \o close \o lead

Leads == {<<>>, <<Ch(" ")>>}

TagCounts == 0..MaxTags

DescLens == {0, 1, MAX_DESCRIPTION_LENGTH - 1, MAX_DESCRIPTION_LENGTH,
             MAX_DESCRIPTION_LENGTH + 1, MaxDescLen}

ClassObjects == {ClassObject(n, m) : n \in TagCounts, m \in DescLens}

\* JSON values of other shapes: keys absent, description for desc, an array
OtherValues ==
  { [kind |-> "object"],
    [kind |-> "object", tags |-> <<"1">>, description |-> Digits(MaxDescLen)],
    [kind |-> "array"] }

\* texts that are not JSON: empty, blank, prose, prose around a document
MalformedContents ==
  { <<>>, <<Ch(" ")>>, Chars(1, "x"), Chars(MaxDescLen, "x"),
    Fence \o Chars(2, "x") \o Fence,
    Chars(1, "x") \o <<Doc(ClassObject(1, 1))>> }

WellFormedContents ==
  {Wrap(l, f[1], f[2], <<Doc(v)>>) :
     l \in Leads, f \in {<<<<>>, <<>>>>, <<Fence, Fence>>, <<FenceJson, Fence>>},
     v \in ClassObjects}

OtherContents ==
  {Wrap(l, f[1], f[2], <<Doc(v)>>) :
     l \in Leads, f \in {<<<<>>, <<>>>>, <<FenceJson, Fence>>, <<Fence, <<>>>>},
     v \in OtherValues \cup {ClassObject(MaxTags, MaxDescLen)}}

ParseResponses ==
  {[kind |-> "content", content |-> c] :
     c \in WellFormedContents \cup OtherContents \cup MalformedContents}
    \cup {[kind |-> "error"]}

\* AI model profiles: profile 1 belongs to the current user, profile 2 to
\* another user.
Profile(id, user, dflt, status) ==
  [id |-> id, user_id |-> user, is_default |-> dflt, status |-> status]

ProfileTables ==
  { {Profile(1, CurrentUser, 1, 1), Profile(2, 2, 1, 1)},    \* enabled default
    {Profile(1, CurrentUser, 1, 0), Profile(2, 2, 1, 1)},    \* default is disabled
    {Profile(1, CurrentUser, 0, 1), Profile(2, 2, 1, 1)} }   \* no default flagged

ModelIds == {0, 1, 2, 3}     \* 0: aiModelId not given; 3: no such profile

\* requests of the profile management API, issued by the current user;
\* isDefault is "true", "false" or "none" (field absent from an update)
ProfileRequests ==
  {[op |-> "create", model_id |-> 0, isDefault |-> d] : d \in {"true", "false"}}
    \cup {[op |-> "update", model_id |-> i, isDefault |-> d] :
             i \in ModelIds \ {0}, d \in {"true", "false", "none"}}
    \cup {[op |-> "delete", model_id |-> i, isDefault |-> "none"] : i \in ModelIds \ {0}}

Txns == 1..MaxRequests

\* a request slot: the request, the handler's position, the row loaded by
\* get_model_by_id, the ids whose default flag the session has cleared
IdleTxn ==
  [pc |-> "idle", req |-> [op |-> "none", model_id |-> 0, isDefault |-> "none"],
   loaded |-> Null, cleared |-> {}]

\* the prompt files the static catalog EXPERTS names
PromptPaths == {"experts/literature-guide-system-prompt.txt",
                "experts/general-summary.txt"}

NoCall == [op |-> "none"]

NoRun == [op |-> "none", pc |-> "idle"]

VARIABLES
  ai_models,        \* table ai_models (static during a request)
  disk,             \* set of stored paths that exist under the upload root
  db,               \* committed rows of table literature (row i has id i)
  sess,             \* the session's view: committed rows and flushed changes
  now,              \* wall clock, in seconds
  req,              \* the request being served
  pc,               \* position of the handler
  events,           \* events emitted on the outward channel, in order
  ai_model,         \* resolved profile id (0: none)
  literature_id,    \* id of the record of the file in progress (0: None)
  file_full_path,   \* path of the saved file in progress (Null: None)
  content,          \* extracted text of the file in progress
  parts,            \* reading_guide_parts
  stream,           \* provider stream: "idle", "open", "closed"
  classified,       \* arguments and result of the classification step
  exc,              \* exception in flight or handled: [kind, at]
  saved_files_info, \* batch: files saved by the upfront phase
  idx,              \* batch: position in saved_files_info of the file in progress
  completed_files,  \* batch: completed_files counter
  db_before,        \* committed rows when the file in progress was started
  nfrags,           \* content fragments the provider has yielded in this request
  yielded,          \* fragments the provider has yielded on the current stream
  txns,             \* profile management requests and their sessions
  user_message,     \* the user message handed to the provider
  provider_pc,      \* position of the provider's generate_stream
  chunks,           \* chunks read from the remote stream, in order
  messages,         \* messages yielded by generate_stream, in order
  prompt_files,     \* the prompts directory: path -> bytes of the file, or Null
  prompt_cache,     \* lru_cache of load_prompt: entries, least recently used first
  prompt_result,    \* the last call of the prompt loader and its outcome
  schema,           \* versions whose upgrade is in effect in the database
  migration_history,\* versions recorded in table migration_history
  run               \* the migrate or rollback command in progress

vars == <<ai_models, disk, db, sess, now, req, pc, events, ai_model,
          literature_id, file_full_path, content, parts, stream, classified,
          exc, saved_files_info, idx, completed_files, db_before, nfrags, yielded,
          txns, user_message, provider_pc, chunks, messages, prompt_files,
          prompt_cache, prompt_result, schema, migration_history, run>>

\* ------------------------------------------------------------- file utils
Lower(ext) == IF ext = "MD" THEN "md" ELSE ext

get_file_extension(fn) == IF fn = <<>> THEN "" ELSE Lower(fn[2])

is_allowed_file(fn) == get_file_extension(fn) \in ALLOWED_EXTENSIONS

\* the stored path is a function of the original name and the second of upload
generate_file_path(fn, t) == [ts |-> t, hash |-> <<fn, t>>, ext |-> fn[2]]

\* "ok" or the reason of the FileException
validate_file(f) ==
  IF f.filename = <<>> THEN "no_file"
  ELSE IF ~is_allowed_file(f.filename) THEN "bad_type"
  ELSE IF f.size > MAX_FILE_SIZE THEN "too_large"
  ELSE IF f.size = 0 THEN "empty"
  ELSE "ok"

\* entry of saved_files_info / the tuple save_file returns, with the bytes' body
SavedInfo(f, t) ==
  [filename |-> f.filename,
   file_full_path |-> generate_file_path(f.filename, t),
   file_size |-> f.size,
   file_type |-> get_file_extension(f.filename),
   body |-> f.body]

\* variant: the text is returned without the emptiness check
extract_content_Unchecked(d, info) ==
  IF info.file_type \notin SupportedExtensions THEN Null
  ELSE IF info.file_full_path \notin d THEN Null
  ELSE IF info.body = "text" THEN Some(ExtractedText)
  ELSE Some(<<>>)

\* extract_content: the text, or Null when a FileException is raised
extract_content(d, info) ==
  IF info.file_type \notin SupportedExtensions THEN Null
  ELSE IF info.file_full_path \notin d THEN Null
  ELSE IF info.body = "text" THEN Some(ExtractedText)
  ELSE Null

\* ------------------------------------------------------- literature service
NewLiterature(id, info, clen) ==
  [id |-> id, user_id |-> CurrentUser, original_name |-> info.filename,
   file_path |-> info.file_full_path, content_length |-> clen,
   tags |-> Null, description |-> Null, reading_guide |-> Null,
   status |-> STATUS_PROCESSING]

create_literature(s, info, clen) == Append(s, NewLiterature(Len(s) + 1, info, clen))

get_literature_by_id(s, id) == IF id \in 1..Len(s) THEN Some(s[id]) ELSE Null

\* json.dumps of a tag list
Dumps(tags) == <<"[">> \o tags \o <<"]">>

\* variant: an empty tag list is stored as NULL, as create_literature does
UpdateRow_EmptyTagsNull(row, kw) ==
  [k \in DOMAIN row |->
     IF k \notin DOMAIN kw THEN row[k]
     ELSE IF k = "tags" THEN (IF kw[k] = <<>> THEN Null ELSE Some(Dumps(kw[k])))
     ELSE IF k = "status" THEN kw[k]
     ELSE Some(kw[k])]

UpdateRow(row, kw) ==
  [k \in DOMAIN row |->
     IF k \notin DOMAIN kw THEN row[k]
     ELSE IF k = "tags" THEN Some(Dumps(kw[k]))
     ELSE IF k = "status" THEN kw[k]
     ELSE Some(kw[k])]

\* update_literature on a row that exists
update_literature(s, id, kw) == [s EXCEPT ![id] = UpdateRow(s[id], kw)]

\* the value is a str: every element is a character.  (An empty array is
\* not told apart from the empty string.)
IsText(v) == \A i \in 1..Len(v) : "c" \in DOMAIN v[i]

CompletedFields(guide, cls) ==
  [reading_guide |-> guide, tags |-> cls[1], description |-> cls[2],
   status |-> STATUS_COMPLETED]

\* variant: the failure path also writes a description
FailedFields_WithDescription ==
  [status |-> STATUS_FAILED, description |-> <<Ch("generation failed")>>]

FailedFields == [status |-> STATUS_FAILED]

\* ---------------------------------------------------------- ai model service
\* variant: the owner is not part of the query
get_model_by_id_AnyOwner(tbl, mid, uid) == {m \in tbl : m.id = mid}

get_model_by_id(tbl, mid, uid) == {m \in tbl : m.id = mid /\ m.user_id = uid}

get_default_model(tbl, uid) ==
  {m \in tbl : m.user_id = uid /\ m.is_default = 1 /\ m.status = 1}

\* the profile the request resolves to: its id, or 0 when none resolves
ResolveModel(tbl, mid, uid) ==
  LET found == IF mid # 0 THEN get_model_by_id(tbl, mid, uid)
               ELSE get_default_model(tbl, uid)
  IN IF found = {} THEN 0 ELSE (CHOOSE m \in found : TRUE).id

\* ------------------------------------------------------------- ai service
\* variant: "\n".join(parts)
RECURSIVE Join_Newline(_)
Join_Newline(ps) ==
  IF ps = <<>> THEN <<>>
  ELSE IF Len(ps) = 1 THEN Head(ps)
  ELSE Head(ps) \o <<"\n">> \o Join_Newline(Tail(ps))

\* "".join(parts)
RECURSIVE Join(_)
Join(ps) == IF ps = <<>> THEN <<>> ELSE Head(ps) \o Join(Tail(ps))

\* s[:n]
Take(s, n) == SubSeq(s, 1, IF Len(s) < n THEN Len(s) ELSE n)

\* s[n:]
Drop(s, n) == SubSeq(s, n + 1, Len(s))

\* s[:-n]
DropLast(s, n) == SubSeq(s, 1, Len(s) - n)

\* str.isspace: blank, line feed, U+3000 (ideographic space)
IsSpace(e) == e.c \in {" ", "\n", "u3000"}

RECURSIVE LStrip(_)
LStrip(s) == IF s # <<>> /\ IsSpace(Head(s)) THEN LStrip(Tail(s)) ELSE s

RECURSIVE RStrip(_)
RStrip(s) ==
  IF s # <<>> /\ IsSpace(s[Len(s)]) THEN RStrip(DropLast(s, 1)) ELSE s

\* str.strip()
Strip(s) == RStrip(LStrip(s))

StartsWith(s, p) == Len(s) >= Len(p) /\ SubSeq(s, 1, Len(p)) = p

EndsWith(s, p) == Len(s) >= Len(p) /\ SubSeq(s, Len(s) - Len(p) + 1, Len(s)) = p

\* variant: the closing marker of the code block is left in place
Unfence_KeepClosing(text) ==
  LET c1 == Strip(text)
      c2 == IF StartsWith(c1, FenceJson) THEN Drop(c1, 7)
            ELSE IF StartsWith(c1, Fence) THEN Drop(c1, 3)
            ELSE c1
  IN Strip(c2)

\* the markdown code block markers are removed
Unfence(text) ==
  LET c1 == Strip(text)
      c2 == IF StartsWith(c1, FenceJson) THEN Drop(c1, 7)
            ELSE IF StartsWith(c1, Fence) THEN Drop(c1, 3)
            ELSE c1
      c3 == IF EndsWith(c2, Fence) THEN DropLast(c2, 3) ELSE c2
  IN Strip(c3)

\* json.loads: the value, or Null on JSONDecodeError
json_loads(c) ==
  LET s == Strip(c) IN
    IF Len(s) = 1 /\ s[1].c = "json" THEN Some(s[1].v) ELSE Null

\* result.get(key, default)
Get(obj, key, default) == IF key \in DOMAIN obj THEN obj[key] ELSE default

\* _parse_classification_result: <<tags, description>>, or Null when an
\* exception other than JSONDecodeError leaves it
parse_classification_result(text) ==
  LET c == Unfence(text)
      result == json_loads(c)
  IN IF result = Null
       THEN Some(<<<<>>, IF c # <<>> THEN Take(c, MAX_DESCRIPTION_LENGTH)
                         ELSE FallbackDescription>>)
     ELSE IF result[1].kind # "object" THEN Null
     ELSE Some(<<Take(Get(result[1], "tags", <<>>), MAX_TAGS),
                 Take(Get(result[1], "desc", Get(result[1], "description", <<>>)),
                      MAX_DESCRIPTION_LENGTH)>>)

\* extract_tags_and_description: the parsed response, or the fallback when
\* the call or the parsing raises
extract_tags_and_description(r) ==
  IF r.kind = "error" THEN <<<<>>, FallbackDescription>>
  ELSE LET p == parse_classification_result(r.content) IN
         IF p = Null THEN <<<<>>, FallbackDescription>> ELSE p[1]

\* ------------------------------------------------------------------ events
Ev(e, d) == [event |-> e, data |-> d]

Idx(i) == <<"0", "1", "2", "3", "4">>[i + 1]

\* variant: the index of the payload counts from one
Tagged_OneBased(i, d) == <<Idx(i + 1), "|">> \o d

\* batch payload "<index>|<data>"
Tagged(i, d) == <<Idx(i), "|">> \o d

\* the exception in flight: its class ("lit": LiteratureException, "other":
\* any other Exception), the step that raised it, the committed row of the
\* record in progress when it was raised, and whether the handler's update
\* to Failed took effect ("none" until the handler ran)
NoExc == [kind |-> "none", at |-> "none", before |-> Null, marked |-> "none"]
Exc(kind, at, before) == [kind |-> kind, at |-> at, before |-> before, marked |-> "none"]

Init ==
  /\ ai_models \in ProfileTables
  /\ disk = {}
  /\ db = <<>>
  /\ sess = <<>>
  /\ now = 0
  /\ req = [kind |-> "none"]
  /\ pc = "idle"
  /\ events = <<>>
  /\ ai_model = 0
  /\ literature_id = 0
  /\ file_full_path = Null
  /\ content = <<>>
  /\ parts = <<>>
  /\ stream = "idle"
  /\ classified = Null
  /\ exc = NoExc
  /\ saved_files_info = <<>>
  /\ idx = 0
  /\ completed_files = 0
  /\ db_before = <<>>
  /\ nfrags = 0
  /\ yielded = <<>>
  /\ txns = [t \in Txns |-> IdleTxn]
  /\ user_message = <<>>
  /\ provider_pc = "idle"
  /\ chunks = <<>>
  /\ messages = <<>>
  /\ prompt_files = [p \in PromptPaths |-> Some(<<"a">>)]
  /\ prompt_cache = <<>>
  /\ prompt_result = NoCall
  /\ schema = {}
  /\ migration_history = {}
  /\ run = NoRun

\* ---------------------------------------------------------------- frames
RunVars == <<ai_model, literature_id, file_full_path, content, parts, stream,
             classified>>
BatchVars == <<saved_files_info, idx, completed_files>>
StoreVars == <<disk, db, sess>>
ProviderVars == <<user_message, provider_pc, chunks, messages>>
LoaderVars == <<prompt_files, prompt_cache, prompt_result>>
MigrationVars == <<schema, migration_history, run>>
ServiceVars == <<ProviderVars, LoaderVars, MigrationVars>>

Emit(e, d) == events' = Append(events, Ev(e, d))

\* an exception leaves the try block
Raise(handler, kind, at) ==
  /\ pc' = handler
  /\ exc' = Exc(kind, at, get_literature_by_id(db, literature_id))

\* outcomes of opening the stream through AIService.generate_reading_guide_stream:
\* the expert prompt cannot be loaded (FileNotFoundError, raised before the
\* try block), the provider cannot be built or the remote call fails
\* (AIException), or the provider starts yielding
StreamOpenOutcomes == {"prompt_missing", "provider_error", "opened"}

\* ===================================================== generate_reading_guide
\* POST /literature/generate-guide
GenerateReadingGuide ==
  /\ pc = "idle"
  /\ \E f \in Uploads, aiModelId \in ModelIds :
       req' = [kind |-> "single", files |-> <<f>>, aiModelId |-> aiModelId]
  /\ pc' = "g_resolve"
  /\ UNCHANGED <<ai_models, txns, ServiceVars, StoreVars, now, events, RunVars, exc, BatchVars, db_before, nfrags, yielded>>

\* resolve the AI profile, then announce the save
GuideResolveModel ==
  /\ pc = "g_resolve"
  /\ LET m == ResolveModel(ai_models, req.aiModelId, CurrentUser) IN
       IF m = 0
         THEN /\ Emit("error", IF req.aiModelId # 0 THEN <<"model not found">>
                                ELSE <<"no default model">>)
              /\ pc' = "done"
              /\ UNCHANGED ai_model
         ELSE /\ ai_model' = m
              /\ Emit("progress", <<"saving">>)
              /\ pc' = "g_save"
  /\ UNCHANGED <<ai_models, txns, ServiceVars, StoreVars, now, req, literature_id, file_full_path,
                 content, parts, stream, classified, exc, BatchVars, db_before, nfrags, yielded>>

\* file_service.save_file, then announce the extraction
GuideSaveFile ==
  /\ pc = "g_save"
  /\ \E t \in Seconds :
       /\ t >= now
       /\ now' = t
       /\ LET f == req.files[1]
              v == validate_file(f)
          IN IF v # "ok"
               THEN /\ Raise("g_except", "lit", "save")
                    /\ UNCHANGED <<disk, file_full_path, events>>
               ELSE \/ /\ disk' = disk \cup {generate_file_path(f.filename, t)}
                       /\ file_full_path' = Some(generate_file_path(f.filename, t))
                       /\ Emit("progress", <<"parsing">>)
                       /\ pc' = "g_extract"
                       /\ UNCHANGED exc
                    \/ \* the write fails: the file may have been created
                       /\ \E created \in BOOLEAN :
                            disk' = IF created
                                      THEN disk \cup {generate_file_path(f.filename, t)}
                                      ELSE disk
                       /\ Raise("g_except", "other", "save")
                       /\ UNCHANGED <<file_full_path, events>>
  /\ UNCHANGED <<ai_models, txns, ServiceVars, db, sess, req, ai_model, literature_id, content,
                 parts, stream, classified, BatchVars, db_before, nfrags, yielded>>

\* file_service.extract_content, then announce the record creation
GuideExtract ==
  /\ pc = "g_extract"
  /\ LET c == extract_content(disk, SavedInfo(req.files[1], now)) IN
       IF c = Null
         THEN /\ Raise("g_except", "lit", "extract")
              /\ UNCHANGED <<content, events>>
         ELSE /\ content' = c[1]
              /\ Emit("progress", <<"creating">>)
              /\ pc' = "g_create"
              /\ UNCHANGED exc
  /\ UNCHANGED <<ai_models, txns, ServiceVars, StoreVars, now, req, ai_model, literature_id,
                 file_full_path, parts, stream, classified, BatchVars, db_before, nfrags, yielded>>

\* literature_service.create_literature (status Processing)
GuideCreate ==
  /\ pc = "g_create"
  /\ \/ /\ sess' = create_literature(sess, SavedInfo(req.files[1], now), Len(content))
        /\ literature_id' = Len(sess) + 1
        /\ pc' = "g_commit_create"
        /\ UNCHANGED exc
     \/ /\ sess' = db
        /\ Raise("g_except", "lit", "create")
        /\ UNCHANGED literature_id
  /\ UNCHANGED <<ai_models, txns, ServiceVars, disk, db, now, req, events, ai_model, file_full_path,
                 content, parts, stream, classified, BatchVars, db_before, nfrags, yielded>>

\* commit of the new record, then announce the generation
GuideCommitCreate ==
  /\ pc = "g_commit_create"
  /\ \/ /\ db' = sess
        /\ Emit("start", <<"generating">>)
        /\ pc' = "g_open"
        /\ UNCHANGED <<sess, exc>>
     \/ /\ sess' = db
        /\ Raise("g_except", "other", "commit_create")
        /\ UNCHANGED <<db, events>>
  /\ UNCHANGED <<ai_models, txns, ServiceVars, disk, now, req, RunVars, BatchVars, db_before, nfrags, yielded>>

\* reading_guide_parts = []; the stream is opened
GuideStreamOpen ==
  /\ pc = "g_open"
  /\ parts' = <<>>
  /\ yielded' = <<>>
  /\ \E o \in StreamOpenOutcomes :
       \/ /\ o = "opened"
          /\ stream' = "open"
          /\ pc' = "g_stream"
          /\ UNCHANGED exc
       \/ /\ o = "prompt_missing"
          /\ Raise("g_except", "other", "prompt")
          /\ UNCHANGED stream
       \/ /\ o = "provider_error"
          /\ Raise("g_except", "lit", "stream")
          /\ UNCHANGED stream
  /\ UNCHANGED <<ai_models, txns, ServiceVars, StoreVars, now, req, events, ai_model, literature_id,
                 file_full_path, content, classified, BatchVars, db_before, nfrags>>

\* variant: the event carries the text accumulated so far, not the fragment
GuideStreamContent_Cumulative ==
  /\ pc = "g_stream"
  /\ stream = "open"
  /\ nfrags < MaxFrags
  /\ nfrags' = nfrags + 1
  /\ \E frag \in Fragments :
       /\ yielded' = Append(yielded, frag)
       /\ parts' = Append(parts, frag)
       /\ Emit("content", Join(Append(parts, frag)))
  /\ UNCHANGED <<ai_models, txns, ServiceVars, StoreVars, now, req, pc, ai_model, literature_id,
                 file_full_path, content, stream, classified, exc, BatchVars,
                 db_before>>

\* the provider yields a content fragment: accumulate and forward it
GuideStreamContent ==
  /\ pc = "g_stream"
  /\ stream = "open"
  /\ nfrags < MaxFrags
  /\ nfrags' = nfrags + 1
  /\ \E frag \in Fragments :
       /\ yielded' = Append(yielded, frag)
       /\ parts' = Append(parts, frag)
       /\ Emit("content", frag)
  /\ UNCHANGED <<ai_models, txns, ServiceVars, StoreVars, now, req, pc, ai_model, literature_id,
                 file_full_path, content, stream, classified, exc, BatchVars,
                 db_before>>

\* the remote call fails mid-stream: AIException
GuideStreamFail ==
  /\ pc = "g_stream"
  /\ stream = "open"
  /\ stream' = "closed"
  /\ Raise("g_except", "lit", "stream")
  /\ UNCHANGED <<ai_models, txns, ServiceVars, StoreVars, now, req, events, ai_model, literature_id,
                 file_full_path, content, parts, classified, BatchVars, db_before, nfrags, yielded>>

\* the provider yields complete and ends; the classification is announced
GuideStreamComplete ==
  /\ pc = "g_stream"
  /\ stream = "open"
  /\ stream' = "closed"
  /\ Emit("progress", <<"classifying">>)
  /\ pc' = "g_classify"
  /\ UNCHANGED <<ai_models, txns, ServiceVars, StoreVars, now, req, ai_model, literature_id,
                 file_full_path, content, parts, classified, exc, BatchVars,
                 db_before, nfrags, yielded>>

\* reading_guide = "".join(parts); ai_service.extract_tags_and_description
GuideClassify ==
  /\ pc = "g_classify"
  /\ \E r \in ClassResponses :
       classified' = Some([guide |-> Join(parts), response |-> r,
                           result |-> extract_tags_and_description(r)])
  /\ pc' = "g_update"
  /\ UNCHANGED <<ai_models, txns, ServiceVars, StoreVars, now, req, events, ai_model, literature_id,
                 file_full_path, content, parts, stream, exc, BatchVars, db_before, nfrags, yielded>>

\* literature_service.update_literature(..., status=1)
GuideUpdate ==
  /\ pc = "g_update"
  /\ \/ /\ get_literature_by_id(sess, literature_id) # Null
        /\ IsText(classified[1].result[2])
        /\ sess' = update_literature(sess, literature_id,
                     CompletedFields(classified[1].guide, classified[1].result))
        /\ pc' = "g_commit_final"
        /\ UNCHANGED exc
     \/ \* the flush cannot bind a description that is not a str
        /\ ~IsText(classified[1].result[2])
        /\ sess' = db
        /\ Raise("g_except", "lit", "update_value")
     \/ /\ sess' = db
        /\ Raise("g_except", "lit", "update")
  /\ UNCHANGED <<ai_models, txns, ServiceVars, disk, db, now, req, events, RunVars, BatchVars, db_before, nfrags, yielded>>

\* variant: a failure of the final commit is swallowed
GuideCommitFinal_Swallow ==
  /\ pc = "g_commit_final"
  /\ \/ /\ db' = sess
        /\ UNCHANGED sess
     \/ /\ sess' = db
        /\ UNCHANGED db
  /\ Emit("complete", <<"done">>)
  /\ pc' = "done"
  /\ UNCHANGED <<ai_models, txns, ServiceVars, disk, now, req, RunVars, exc, BatchVars, db_before, nfrags, yielded>>

\* the final commit, then the completion event
GuideCommitFinal ==
  /\ pc = "g_commit_final"
  /\ \/ /\ db' = sess
        /\ Emit("complete", <<"done">>)
        /\ pc' = "done"
        /\ UNCHANGED <<sess, exc>>
     \/ /\ sess' = db
        /\ Raise("g_except", "other", "commit_final")
        /\ UNCHANGED <<db, events>>
  /\ UNCHANGED <<ai_models, txns, ServiceVars, disk, now, req, RunVars, BatchVars, db_before, nfrags, yielded>>

\* the best-effort update of the record to Failed and its commit: the rows
\* committed afterwards, for each outcome the database can produce
MarkFailed(committed, id) ==
  IF id = 0 THEN {committed}
  ELSE IF get_literature_by_id(committed, id) = Null THEN {committed}
  ELSE {update_literature(committed, id, FailedFields), committed}

\* variant: a failure of the update to Failed replaces the error reported
GuideExceptLiterature_Propagate ==
  /\ pc = "g_except"
  /\ exc.kind = "lit"
  /\ \E d \in MarkFailed(db, literature_id) :
       /\ db' = d
       /\ sess' = d
       /\ exc' = [exc EXCEPT !.marked = IF d # db THEN "yes" ELSE "no"]
       /\ Emit("error", IF d = db /\ exc.before # Null
                          THEN <<"update failed">> ELSE <<exc.at>>)
  /\ pc' = "done"
  /\ UNCHANGED <<ai_models, txns, ServiceVars, disk, now, req, RunVars, BatchVars, db_before, nfrags, yielded>>

\* variant: this branch deletes the saved file as the other branch does
GuideExceptLiterature_Cleanup ==
  /\ pc = "g_except"
  /\ exc.kind = "lit"
  /\ \E d \in MarkFailed(db, literature_id) :
       /\ db' = d
       /\ sess' = d
       /\ exc' = [exc EXCEPT !.marked = IF d # db THEN "yes" ELSE "no"]
  /\ disk' = IF file_full_path # Null THEN disk \ {file_full_path[1]} ELSE disk
  /\ Emit("error", <<exc.at>>)
  /\ pc' = "done"
  /\ UNCHANGED <<ai_models, txns, ServiceVars, now, req, RunVars, BatchVars, db_before, nfrags, yielded>>

\* except LiteratureException
GuideExceptLiterature ==
  /\ pc = "g_except"
  /\ exc.kind = "lit"
  /\ \E d \in MarkFailed(db, literature_id) :
       /\ db' = d
       /\ sess' = d
       /\ exc' = [exc EXCEPT !.marked = IF d # db THEN "yes" ELSE "no"]
  /\ Emit("error", <<exc.at>>)
  /\ pc' = "done"
  /\ UNCHANGED <<ai_models, txns, ServiceVars, disk, now, req, RunVars, BatchVars, db_before, nfrags, yielded>>

\* except Exception
GuideExceptOther ==
  /\ pc = "g_except"
  /\ exc.kind = "other"
  /\ \E d \in MarkFailed(db, literature_id) :
       /\ db' = d
       /\ sess' = d
       /\ exc' = [exc EXCEPT !.marked = IF d # db THEN "yes" ELSE "no"]
  /\ disk' = IF file_full_path # Null THEN disk \ {file_full_path[1]} ELSE disk
  /\ Emit("error", <<"generation failed: ", exc.at>>)
  /\ pc' = "done"
  /\ UNCHANGED <<ai_models, txns, ServiceVars, now, req, RunVars, BatchVars, db_before, nfrags, yielded>>

GuideNext ==
  \/ GenerateReadingGuide
  \/ GuideResolveModel
  \/ GuideSaveFile
  \/ GuideExtract
  \/ GuideCreate
  \/ GuideCommitCreate
  \/ GuideStreamOpen
  \/ GuideStreamContent
  \/ GuideStreamFail
  \/ GuideStreamComplete
  \/ GuideClassify
  \/ GuideUpdate
  \/ GuideCommitFinal
  \/ GuideExceptLiterature
  \/ GuideExceptOther

\* =================================================== batch_import_literatures
\* POST /literature/batch-import
BatchImportLiteratures ==
  /\ pc = "idle"
  /\ \E n \in 1..MaxFiles :
       \E fs \in [1..n -> Uploads] : req' = [kind |-> "batch", files |-> fs]
  /\ pc' = "b_save"
  /\ UNCHANGED <<ai_models, txns, ServiceVars, StoreVars, now, events, RunVars, exc, BatchVars, db_before, nfrags, yielded>>

\* variant: a failing save leaves the files saved so far in storage
BatchSaveFile_NoCleanup ==
  /\ pc = "b_save"
  /\ Len(saved_files_info) < Len(req.files)
  /\ \E t \in Seconds :
       /\ t >= now
       /\ now' = t
       /\ LET f == req.files[Len(saved_files_info) + 1]
              v == validate_file(f)
              savedPaths == {saved_files_info[k].file_full_path :
                               k \in 1..Len(saved_files_info)}
          IN IF v # "ok"
               THEN /\ disk' = disk
                    /\ Raise("done", "lit", "save")
                    /\ UNCHANGED saved_files_info
               ELSE \/ /\ disk' = disk \cup {generate_file_path(f.filename, t)}
                       /\ saved_files_info' = Append(saved_files_info, SavedInfo(f, t))
                       /\ pc' = IF Len(saved_files_info) + 1 = Len(req.files)
                                  THEN "b_resolve" ELSE "b_save"
                       /\ UNCHANGED exc
                    \/ /\ \E created \in BOOLEAN :
                            disk' = (IF created
                                       THEN disk \cup {generate_file_path(f.filename, t)}
                                       ELSE disk)
                       /\ Raise("done", "lit", "save")
                       /\ UNCHANGED saved_files_info
  /\ UNCHANGED <<ai_models, txns, ServiceVars, db, sess, req, events, RunVars, idx, completed_files,
                 db_before, nfrags, yielded>>

\* one round of the upfront save loop: save the next file; on a failure
\* delete every file saved so far and fail the request
BatchSaveFile ==
  /\ pc = "b_save"
  /\ Len(saved_files_info) < Len(req.files)
  /\ \E t \in Seconds :
       /\ t >= now
       /\ now' = t
       /\ LET f == req.files[Len(saved_files_info) + 1]
              v == validate_file(f)
              savedPaths == {saved_files_info[k].file_full_path :
                               k \in 1..Len(saved_files_info)}
          IN IF v # "ok"
               THEN /\ disk' = disk \ savedPaths
                    /\ Raise("done", "lit", "save")
                    /\ UNCHANGED saved_files_info
               ELSE \/ /\ disk' = disk \cup {generate_file_path(f.filename, t)}
                       /\ saved_files_info' = Append(saved_files_info, SavedInfo(f, t))
                       /\ pc' = IF Len(saved_files_info) + 1 = Len(req.files)
                                  THEN "b_resolve" ELSE "b_save"
                       /\ UNCHANGED exc
                    \/ /\ \E created \in BOOLEAN :
                            disk' = (IF created
                                       THEN disk \cup {generate_file_path(f.filename, t)}
                                       ELSE disk) \ savedPaths
                       /\ Raise("done", "lit", "save")
                       /\ UNCHANGED saved_files_info
  /\ UNCHANGED <<ai_models, txns, ServiceVars, db, sess, req, events, RunVars, idx, completed_files,
                 db_before, nfrags, yielded>>

\* the generator starts: resolve the AI profile
BatchResolveModel ==
  /\ pc = "b_resolve"
  /\ \E aiModelId \in ModelIds :
     LET m == ResolveModel(ai_models, aiModelId, CurrentUser) IN
       IF m = 0
         THEN /\ Emit("error", IF aiModelId # 0 THEN <<"model not found">>
                                ELSE <<"no default model">>)
              /\ pc' = "done"
              /\ UNCHANGED <<ai_model, idx>>
         ELSE /\ ai_model' = m
              /\ idx' = 1
              /\ pc' = "b_file"
              /\ UNCHANGED events
  /\ UNCHANGED <<ai_models, txns, ServiceVars, StoreVars, now, req, literature_id, file_full_path,
                 content, parts, stream, classified, exc, saved_files_info,
                 completed_files, db_before, nfrags, yielded>>

\* variant: literature_id is not reset for the next file
BatchFileStart_KeepId ==
  /\ pc = "b_file"
  /\ idx <= Len(saved_files_info)
  /\ UNCHANGED literature_id
  /\ file_full_path' = Some(saved_files_info[idx].file_full_path)
  /\ content' = <<>>
  /\ parts' = <<>>
  /\ stream' = "idle"
  /\ classified' = Null
  /\ yielded' = <<>>
  /\ events' = events \o
       << Ev("file_start", Tagged(idx - 1, saved_files_info[idx].filename)),
          Ev("file_progress", Tagged(idx - 1, <<"parsing">>)) >>
  /\ exc' = NoExc
  /\ db_before' = db
  /\ pc' = "b_extract"
  /\ UNCHANGED <<ai_models, txns, ServiceVars, StoreVars, now, req, ai_model, BatchVars, nfrags>>

\* the loop takes the next file: file_start and the extraction are announced
BatchFileStart ==
  /\ pc = "b_file"
  /\ idx <= Len(saved_files_info)
  /\ literature_id' = 0
  /\ file_full_path' = Some(saved_files_info[idx].file_full_path)
  /\ content' = <<>>
  /\ parts' = <<>>
  /\ stream' = "idle"
  /\ classified' = Null
  /\ yielded' = <<>>
  /\ events' = events \o
       << Ev("file_start", Tagged(idx - 1, saved_files_info[idx].filename)),
          Ev("file_progress", Tagged(idx - 1, <<"parsing">>)) >>
  /\ exc' = NoExc
  /\ db_before' = db
  /\ pc' = "b_extract"
  /\ UNCHANGED <<ai_models, txns, ServiceVars, StoreVars, now, req, ai_model, BatchVars, nfrags>>

BatchExtract ==
  /\ pc = "b_extract"
  /\ LET c == extract_content(disk, saved_files_info[idx]) IN
       IF c = Null
         THEN /\ Raise("b_except", "lit", "extract")
              /\ UNCHANGED <<content, events>>
         ELSE /\ content' = c[1]
              /\ Emit("file_progress", Tagged(idx - 1, <<"creating">>))
              /\ pc' = "b_create"
              /\ UNCHANGED exc
  /\ UNCHANGED <<ai_models, txns, ServiceVars, StoreVars, now, req, ai_model, literature_id,
                 file_full_path, parts, stream, classified, BatchVars, db_before, nfrags, yielded>>

BatchCreate ==
  /\ pc = "b_create"
  /\ \/ /\ sess' = create_literature(sess, saved_files_info[idx], Len(content))
        /\ literature_id' = Len(sess) + 1
        /\ pc' = "b_commit_create"
        /\ UNCHANGED exc
     \/ /\ sess' = db
        /\ Raise("b_except", "lit", "create")
        /\ UNCHANGED literature_id
  /\ UNCHANGED <<ai_models, txns, ServiceVars, disk, db, now, req, events, ai_model, file_full_path,
                 content, parts, stream, classified, BatchVars, db_before, nfrags, yielded>>

BatchCommitCreate ==
  /\ pc = "b_commit_create"
  /\ \/ /\ db' = sess
        /\ Emit("file_progress", Tagged(idx - 1, <<"generating">>))
        /\ pc' = "b_open"
        /\ UNCHANGED <<sess, exc>>
     \/ /\ sess' = db
        /\ Raise("b_except", "other", "commit_create")
        /\ UNCHANGED <<db, events>>
  /\ UNCHANGED <<ai_models, txns, ServiceVars, disk, now, req, RunVars, BatchVars, db_before, nfrags, yielded>>

BatchStreamOpen ==
  /\ pc = "b_open"
  /\ parts' = <<>>
  /\ yielded' = <<>>
  /\ \E o \in StreamOpenOutcomes :
       \/ /\ o = "opened"
          /\ stream' = "open"
          /\ pc' = "b_stream"
          /\ UNCHANGED exc
       \/ /\ o = "prompt_missing"
          /\ Raise("b_except", "other", "prompt")
          /\ UNCHANGED stream
       \/ /\ o = "provider_error"
          /\ Raise("b_except", "lit", "stream")
          /\ UNCHANGED stream
  /\ UNCHANGED <<ai_models, txns, ServiceVars, StoreVars, now, req, events, ai_model, literature_id,
                 file_full_path, content, classified, BatchVars, db_before, nfrags>>

\* a content fragment is accumulated; batch mode forwards no content event
BatchStreamContent ==
  /\ pc = "b_stream"
  /\ stream = "open"
  /\ nfrags < MaxFrags
  /\ nfrags' = nfrags + 1
  /\ \E frag \in Fragments :
       /\ yielded' = Append(yielded, frag)
       /\ parts' = Append(parts, frag)
  /\ UNCHANGED <<ai_models, txns, ServiceVars, StoreVars, now, req, pc, events, ai_model,
                 literature_id, file_full_path, content, stream, classified, exc,
                 BatchVars, db_before>>

BatchStreamFail ==
  /\ pc = "b_stream"
  /\ stream = "open"
  /\ stream' = "closed"
  /\ Raise("b_except", "lit", "stream")
  /\ UNCHANGED <<ai_models, txns, ServiceVars, StoreVars, now, req, events, ai_model, literature_id,
                 file_full_path, content, parts, classified, BatchVars, db_before, nfrags, yielded>>

BatchStreamComplete ==
  /\ pc = "b_stream"
  /\ stream = "open"
  /\ stream' = "closed"
  /\ Emit("file_progress", Tagged(idx - 1, <<"classifying">>))
  /\ pc' = "b_classify"
  /\ UNCHANGED <<ai_models, txns, ServiceVars, StoreVars, now, req, ai_model, literature_id,
                 file_full_path, content, parts, classified, exc, BatchVars,
                 db_before, nfrags, yielded>>

BatchClassify ==
  /\ pc = "b_classify"
  /\ \E r \in ClassResponses :
       classified' = Some([guide |-> Join(parts), response |-> r,
                           result |-> extract_tags_and_description(r)])
  /\ pc' = "b_update"
  /\ UNCHANGED <<ai_models, txns, ServiceVars, StoreVars, now, req, events, ai_model, literature_id,
                 file_full_path, content, parts, stream, exc, BatchVars, db_before, nfrags, yielded>>

BatchUpdate ==
  /\ pc = "b_update"
  /\ \/ /\ get_literature_by_id(sess, literature_id) # Null
        /\ IsText(classified[1].result[2])
        /\ sess' = update_literature(sess, literature_id,
                     CompletedFields(classified[1].guide, classified[1].result))
        /\ pc' = "b_commit_final"
        /\ UNCHANGED exc
     \/ \* the flush cannot bind a description that is not a str
        /\ ~IsText(classified[1].result[2])
        /\ sess' = db
        /\ Raise("b_except", "lit", "update_value")
     \/ /\ sess' = db
        /\ Raise("b_except", "lit", "update")
  /\ UNCHANGED <<ai_models, txns, ServiceVars, disk, db, now, req, events, RunVars, BatchVars, db_before, nfrags, yielded>>

\* the final commit of the file, the counter and file_complete; next file
BatchCommitFinal ==
  /\ pc = "b_commit_final"
  /\ \/ /\ db' = sess
        /\ completed_files' = completed_files + 1
        /\ Emit("file_complete", Tagged(idx - 1, <<ToString(literature_id)>>))
        /\ idx' = idx + 1
        /\ pc' = "b_file"
        /\ UNCHANGED <<sess, exc>>
     \/ /\ sess' = db
        /\ Raise("b_except", "other", "commit_final")
        /\ UNCHANGED <<db, events, idx, completed_files>>
  /\ UNCHANGED <<ai_models, txns, ServiceVars, disk, now, req, RunVars, saved_files_info, db_before, nfrags, yielded>>

\* variant: a failing file ends the generator
BatchExcept_Abort ==
  /\ pc = "b_except"
  /\ \E d \in MarkFailed(db, literature_id) :
       /\ db' = d
       /\ sess' = d
       /\ exc' = [exc EXCEPT !.marked = IF d # db THEN "yes" ELSE "no"]
  /\ disk' = disk \ {file_full_path[1]}
  /\ Emit("file_error", Tagged(idx - 1, <<exc.at>>))
  /\ idx' = idx + 1
  /\ pc' = "done"
  /\ UNCHANGED <<ai_models, txns, ServiceVars, now, req, RunVars, saved_files_info,
                 completed_files, db_before, nfrags, yielded>>

\* except Exception of the per-file try: mark Failed, delete the file,
\* file_error, and go on with the next file
BatchExcept ==
  /\ pc = "b_except"
  /\ \E d \in MarkFailed(db, literature_id) :
       /\ db' = d
       /\ sess' = d
       /\ exc' = [exc EXCEPT !.marked = IF d # db THEN "yes" ELSE "no"]
  /\ disk' = disk \ {file_full_path[1]}
  /\ Emit("file_error", Tagged(idx - 1, <<exc.at>>))
  /\ idx' = idx + 1
  /\ pc' = "b_file"
  /\ UNCHANGED <<ai_models, txns, ServiceVars, now, req, RunVars, saved_files_info,
                 completed_files, db_before, nfrags, yielded>>

\* after the loop: batch_complete
BatchComplete ==
  /\ pc = "b_file"
  /\ idx > Len(saved_files_info)
  /\ Emit("batch_complete", <<ToString(completed_files), "/",
                              ToString(Len(saved_files_info))>>)
  /\ pc' = "done"
  /\ UNCHANGED <<ai_models, txns, ServiceVars, StoreVars, now, req, RunVars, exc, BatchVars, db_before, nfrags, yielded>>

BatchNext ==
  \/ BatchImportLiteratures
  \/ BatchSaveFile
  \/ BatchResolveModel
  \/ BatchFileStart
  \/ BatchExtract
  \/ BatchCreate
  \/ BatchCommitCreate
  \/ BatchStreamOpen
  \/ BatchStreamContent
  \/ BatchStreamFail
  \/ BatchStreamComplete
  \/ BatchClassify
  \/ BatchUpdate
  \/ BatchCommitFinal
  \/ BatchExcept
  \/ BatchComplete

Next == GuideNext \/ BatchNext

\* ======================================================= AI model profile API
\* Every request runs in a session of its own.  A query reads the rows
\* committed at the time it is executed; the changes a session flushes stay
\* private to it until its commit, which applies them to the table.
PipelineVars == <<disk, db, sess, now, req, pc, events, ai_model, literature_id,
                  file_full_path, content, parts, stream, classified, exc,
                  saved_files_info, idx, completed_files, db_before, nfrags,
                  yielded, ServiceVars>>

\* _clear_default_models: the ids of the user's rows flagged default
clear_default_models(tbl, uid) ==
  {m.id : m \in {x \in tbl : x.user_id = uid /\ x.is_default = 1}}

\* id given to an inserted row
NewModelId(tbl) ==
  IF tbl = {} THEN 1
  ELSE (CHOOSE m \in tbl : \A x \in tbl : x.id <= m.id).id + 1

\* the table after the session's cleared flags are written
WithCleared(tbl, ids) ==
  {IF m.id \in ids THEN [m EXCEPT !.is_default = 0] ELSE m : m \in tbl}

\* the value the session writes to the target's is_default column, or Null
\* when the attribute is unchanged in the session and no UPDATE is emitted
TargetWrite(tx) ==
  IF tx.req.isDefault = "none" THEN Null
  ELSE LET v == IF tx.req.isDefault = "true" THEN 1 ELSE 0
           cur == IF tx.loaded[1].id \in tx.cleared THEN 0
                  ELSE tx.loaded[1].is_default
       IN IF v # cur THEN Some(v) ELSE Null

\* ids of the rows the session has flushed an UPDATE or DELETE for
WrittenIds(tx) ==
  tx.cleared \cup (IF tx.req.op = "create" THEN {}
                   ELSE IF tx.req.op = "delete" THEN {tx.loaded[1].id}
                   ELSE IF TargetWrite(tx) # Null THEN {tx.loaded[1].id}
                   ELSE {})

\* the table after the session's changes are applied
Committed(tbl, tx) ==
  LET t1 == WithCleared(tbl, tx.cleared) IN
    IF tx.req.op = "create"
      THEN t1 \cup {Profile(NewModelId(tbl), CurrentUser,
                            IF tx.req.isDefault = "true" THEN 1 ELSE 0, 1)}
    ELSE IF tx.req.op = "delete"
      THEN {m \in t1 : m.id # tx.loaded[1].id}
    ELSE IF TargetWrite(tx) = Null THEN t1
    ELSE {IF m.id = tx.loaded[1].id
            THEN [m EXCEPT !.is_default = TargetWrite(tx)[1]] ELSE m : m \in t1}

\* POST /ai-models, PUT /ai-models/{id}, DELETE /ai-models/{id} arrive
ProfileRequest(t) ==
  /\ txns[t].pc = "idle"
  /\ \E r \in ProfileRequests :
       txns' = [txns EXCEPT ![t] =
                  [IdleTxn EXCEPT !.req = r,
                                  !.pc = IF r.op # "create" THEN "get"
                                         ELSE IF r.isDefault = "true" THEN "clear"
                                         ELSE "commit"]]
  /\ UNCHANGED <<ai_models, PipelineVars>>

\* update_model / delete_model: get_model_by_id, NotFoundException when absent
ProfileGet(t) ==
  /\ txns[t].pc = "get"
  /\ LET found == get_model_by_id(ai_models, txns[t].req.model_id, CurrentUser) IN
       IF found = {}
         THEN txns' = [txns EXCEPT ![t].pc = "not_found"]
         ELSE txns' = [txns EXCEPT
                         ![t].loaded = Some(CHOOSE m \in found : TRUE),
                         ![t].pc = IF txns[t].req.op = "update"
                                      /\ txns[t].req.isDefault = "true"
                                     THEN "clear" ELSE "commit"]
  /\ UNCHANGED <<ai_models, PipelineVars>>

\* _clear_default_models: select the user's default rows, clear their flag,
\* flush; then the handler flushes its insert or its update
ProfileClearDefaults(t) ==
  /\ txns[t].pc = "clear"
  /\ txns' = [txns EXCEPT
                ![t].cleared = clear_default_models(ai_models, CurrentUser),
                ![t].pc = "commit"]
  /\ UNCHANGED <<ai_models, PipelineVars>>

\* db.commit() of the endpoint: the session's changes are applied; the
\* request fails when the commit fails or a row it wrote no longer exists
ProfileCommit(t) ==
  /\ txns[t].pc = "commit"
  /\ \/ /\ WrittenIds(txns[t]) \subseteq {m.id : m \in ai_models}
        /\ ai_models' = Committed(ai_models, txns[t])
        /\ txns' = [txns EXCEPT ![t].pc = "done"]
     \/ /\ txns' = [txns EXCEPT ![t].pc = "failed"]
        /\ UNCHANGED ai_models
  /\ UNCHANGED PipelineVars

ProfileNext ==
  \E t \in Txns :
    \/ ProfileRequest(t)
    \/ ProfileGet(t)
    \/ ProfileClearDefaults(t)
    \/ ProfileCommit(t)

ProfileSpec == Init /\ [][ProfileNext]_vars

\* ============================================ extract_tags_and_description
\* The classification step on its own, over the texts a provider can return.
NotClassified == <<ai_models, txns, disk, db, sess, now, req, pc, events, ai_model,
                   literature_id, file_full_path, content, parts, stream, exc,
                   saved_files_info, idx, completed_files, db_before, nfrags,
                   yielded, ServiceVars>>

\* provider.generate returns (or raises)
ClassificationResponse ==
  /\ classified = Null
  /\ \E r \in ParseResponses :
       classified' = Some([guide |-> <<>>, response |-> r, result |-> <<>>])
  /\ UNCHANGED NotClassified

\* the response is parsed
ClassificationParse ==
  /\ classified # Null
  /\ classified[1].result = <<>>
  /\ classified' =
       Some([classified[1] EXCEPT
               !.result = extract_tags_and_description(classified[1].response)])
  /\ UNCHANGED NotClassified

ParseNext == ClassificationResponse \/ ClassificationParse

ParseSpec == Init /\ [][ParseNext]_vars

Spec == Init /\ [][Next]_vars

\* the event loop resumes a handler that can take its next step: a generator
\* that is being consumed is never suspended forever
FairInit ==
  /\ Init
  /\ ai_models = {Profile(1, CurrentUser, 1, 1), Profile(2, 2, 1, 1)}

FairSpec == FairInit /\ [][Next]_vars /\ WF_vars(Next)

\* ============================================================ file parsers
\* FileService.extract_content on its own, over the files a parser can meet.

\* bytes of a stored file: the letter a, a blank, and 0xA1, which is no
\* UTF-8 sequence and which GBK pairs up to U+3000
Bytes == {"a", " ", "A1"}

ByteStrings == UNION {[1..n -> Bytes] : n \in 1..MaxBytes}

\* what PyPDF2 / python-docx find in a file: the library raises, or the text
\* of each page / paragraph (empty, blank, or a letter)
PartTexts == {<<>>, <<Ch(" ")>>, <<Ch("a")>>}

Documents ==
  {[ok |-> FALSE]}
    \cup UNION {{[ok |-> TRUE, parts |-> ps] : ps \in [1..n -> PartTexts]} : n \in 0..MaxPages}

ExtractRequests ==
  {[kind |-> "extract", file_type |-> e, data |-> b] :
     e \in {"md", "markdown"}, b \in ByteStrings}
    \cup {[kind |-> "extract", file_type |-> e, data |-> d] :
             e \in {"pdf", "doc", "docx"}, d \in Documents}

\* open(encoding='utf-8').read(): the text, or Null on UnicodeDecodeError
utf8_decode(bytes) ==
  IF \E i \in 1..Len(bytes) : bytes[i] = "A1" THEN Null
  ELSE Some([i \in 1..Len(bytes) |-> Ch(bytes[i])])

\* open(encoding='gbk').read(): the text, or Null on UnicodeDecodeError
RECURSIVE gbk_decode(_)
gbk_decode(bytes) ==
  IF bytes = <<>> THEN Some(<<>>)
  ELSE IF bytes[1] # "A1"
    THEN LET rest == gbk_decode(Tail(bytes)) IN
           IF rest = Null THEN Null ELSE Some(<<Ch(bytes[1])>> \o rest[1])
  ELSE IF Len(bytes) >= 2 /\ bytes[2] = "A1"
    THEN LET rest == gbk_decode(Tail(Tail(bytes))) IN
           IF rest = Null THEN Null ELSE Some(<<Ch("u3000")>> \o rest[1])
  ELSE Null

\* sep.join(parts)
RECURSIVE JoinWith(_, _)
JoinWith(ps, sep) ==
  IF ps = <<>> THEN <<>>
  ELSE IF Len(ps) = 1 THEN ps[1]
  ELSE ps[1] \o sep \o JoinWith(Tail(ps), sep)

ParagraphBreak == <<Ch("\n"), Ch("\n")>>

\* the parsers: the text, or Null when FileException is raised
MarkdownParser_parse(bytes) ==
  LET u == utf8_decode(bytes) IN
    IF u # Null
      THEN (IF Strip(u[1]) = <<>> THEN Null ELSE u)
      ELSE gbk_decode(bytes)

IsTruthy(text) == text # <<>>

PDFParser_parse(doc) ==
  IF ~doc.ok THEN Null
  ELSE LET c == JoinWith(SelectSeq(doc.parts, IsTruthy), ParagraphBreak) IN
         IF Strip(c) = <<>> THEN Null ELSE Some(c)

HasText(text) == Strip(text) # <<>>

WordParser_parse(doc) ==
  IF ~doc.ok THEN Null
  ELSE LET c == JoinWith(SelectSeq(doc.parts, HasText), ParagraphBreak) IN
         IF Strip(c) = <<>> THEN Null ELSE Some(c)

\* FileParserFactory.get_parser(file_type).parse(file_path)
parse(file_type, data) ==
  IF file_type = "pdf" THEN PDFParser_parse(data)
  ELSE IF file_type \in {"doc", "docx"} THEN WordParser_parse(data)
  ELSE MarkdownParser_parse(data)

NotExtract == <<ai_models, txns, ServiceVars, disk, db, sess, now, events,
                ai_model, literature_id, file_full_path, parts, stream,
                classified, saved_files_info, idx, completed_files, db_before,
                nfrags, yielded>>

\* extract_content is called on a stored file
ExtractCall ==
  /\ pc = "idle"
  /\ req' \in ExtractRequests
  /\ pc' = "x_parse"
  /\ UNCHANGED <<NotExtract, content, exc>>

\* FileService.extract_content: the parser's text, or FileException
ExtractContent ==
  /\ pc = "x_parse"
  /\ LET c == parse(req.file_type, req.data) IN
       IF c = Null
         THEN /\ exc' = Exc("lit", "extract", Null)
              /\ UNCHANGED content
         ELSE /\ content' = c[1]
              /\ UNCHANGED exc
  /\ pc' = "x_done"
  /\ UNCHANGED <<NotExtract, req>>

ExtractNext == ExtractCall \/ ExtractContent

ExtractSpec == Init /\ [][ExtractNext]_vars

\* =========================================================== prompt loader
\* PromptLoader: load_prompt with its lru_cache, reload_prompt and
\* load_expert_prompt, while the files of the prompts directory are edited.

\* cache size of load_prompt
PROMPT_CACHE_MAXSIZE == 32

\* the static catalog, two of its entries: expert id -> prompt_file
EXPERTS ==
  [id \in {"academic-mentor", "general-summary"} |->
     IF id = "academic-mentor" THEN "experts/literature-guide-system-prompt.txt"
     ELSE "experts/general-summary.txt"]

ExpertIds == DOMAIN EXPERTS \cup {"no-such-expert"}

\* names load_prompt is called with: with and without the extension
PromptNames == PromptPaths \cup {"experts/general-summary"}

\* prompt_name + ".txt" unless the name ends with ".txt"
PromptFileName(name) ==
  IF name \in PromptPaths THEN name ELSE "experts/general-summary.txt"

\* bytes of a prompt file: UTF-8 text, GBK text that is no UTF-8, or neither
PromptFileContents == {<<"a">>, <<"b", " ">>, <<"A1", "A1", "b">>, <<"A1">>}

\* the body of load_prompt: read the file, strip
read_prompt(files, name) ==
  LET path == PromptFileName(name) IN
    IF files[path] = Null THEN [kind |-> "not_found"]
    ELSE LET u == utf8_decode(files[path][1])
             g == gbk_decode(files[path][1])
         IN IF u # Null THEN [kind |-> "text", text |-> Strip(u[1])]
            ELSE IF g # Null THEN [kind |-> "text", text |-> Strip(g[1])]
            ELSE [kind |-> "decode_error"]

CacheIndex(cache, name) == {i \in 1..Len(cache) : cache[i].key = name}

\* the sequence without its i-th element
Without(s, i) == SubSeq(s, 1, i - 1) \o SubSeq(s, i + 1, Len(s))

\* variant: every call runs the body, no cached text is returned
load_prompt_Uncached(cache, files, name) ==
  LET r == read_prompt(files, name) IN
    IF r.kind # "text" THEN [cache |-> cache, outcome |-> r]
    ELSE [cache |-> Append(IF CacheIndex(cache, name) # {}
                             THEN Without(cache, CHOOSE i \in CacheIndex(cache, name) : TRUE)
                             ELSE cache,
                           [key |-> name, value |-> r.text]),
          outcome |-> r]

\* load_prompt behind lru_cache: a hit returns the cached text and makes the
\* entry the most recent; a miss runs the body and caches what it returns
\* (an exception is not cached), evicting the least recent entry when full
load_prompt(cache, files, name) ==
  IF CacheIndex(cache, name) # {}
    THEN LET i == CHOOSE i \in CacheIndex(cache, name) : TRUE IN
           [cache |-> Append(Without(cache, i), cache[i]),
            outcome |-> [kind |-> "text", text |-> cache[i].value]]
  ELSE LET r == read_prompt(files, name) IN
         IF r.kind # "text" THEN [cache |-> cache, outcome |-> r]
         ELSE [cache |-> Append(IF Len(cache) >= PROMPT_CACHE_MAXSIZE
                                  THEN Tail(cache) ELSE cache,
                                [key |-> name, value |-> r.text]),
               outcome |-> r]

NotLoader == <<ai_models, txns, ProviderVars, MigrationVars, disk, db, sess, now,
               req, pc, events, ai_model, literature_id, file_full_path,
               content, parts, stream, classified, exc, saved_files_info, idx,
               completed_files, db_before, nfrags, yielded>>

\* prompt_loader.load_prompt(name)
LoadPrompt(name) ==
  /\ LET r == load_prompt(prompt_cache, prompt_files, name) IN
       /\ prompt_cache' = r.cache
       /\ prompt_result' = [op |-> "load_prompt", name |-> name,
                            before |-> prompt_cache, outcome |-> r.outcome]
  /\ UNCHANGED <<NotLoader, prompt_files>>

\* variant: only the entry of the name is dropped from the cache
ReloadPrompt_OneName(name) ==
  /\ LET kept == SelectSeq(prompt_cache, LAMBDA e : e.key # name)
         r == load_prompt(kept, prompt_files, name)
     IN /\ prompt_cache' = r.cache
        /\ prompt_result' = [op |-> "reload_prompt", name |-> name,
                             before |-> prompt_cache, outcome |-> r.outcome]
  /\ UNCHANGED <<NotLoader, prompt_files>>

\* reload_prompt(name): cache_clear(), then load_prompt(name)
ReloadPrompt(name) ==
  /\ LET r == load_prompt(<<>>, prompt_files, name) IN
       /\ prompt_cache' = r.cache
       /\ prompt_result' = [op |-> "reload_prompt", name |-> name,
                            before |-> prompt_cache, outcome |-> r.outcome]
  /\ UNCHANGED <<NotLoader, prompt_files>>

\* load_expert_prompt(expert_id)
LoadExpertPrompt(id) ==
  /\ IF id \notin DOMAIN EXPERTS
       THEN /\ prompt_result' = [op |-> "load_expert_prompt", name |-> id,
                                 before |-> prompt_cache,
                                 outcome |-> [kind |-> "not_found"]]
            /\ UNCHANGED prompt_cache
       ELSE LET r == load_prompt(prompt_cache, prompt_files, EXPERTS[id]) IN
              /\ prompt_cache' = r.cache
              /\ prompt_result' = [op |-> "load_expert_prompt", name |-> id,
                                   before |-> prompt_cache, outcome |-> r.outcome]
  /\ UNCHANGED <<NotLoader, prompt_files>>

\* a prompt file is written or replaced on disk
WritePromptFile(path) ==
  /\ \E c \in PromptFileContents : prompt_files' = [prompt_files EXCEPT ![path] = Some(c)]
  /\ UNCHANGED <<NotLoader, prompt_cache, prompt_result>>

\* a prompt file is removed from disk
RemovePromptFile(path) ==
  /\ prompt_files[path] # Null
  /\ prompt_files' = [prompt_files EXCEPT ![path] = Null]
  /\ UNCHANGED <<NotLoader, prompt_cache, prompt_result>>

PromptNext ==
  \/ \E name \in PromptNames : LoadPrompt(name)
  \/ \E name \in PromptNames : ReloadPrompt(name)
  \/ \E id \in ExpertIds : LoadExpertPrompt(id)
  \/ \E path \in PromptPaths : WritePromptFile(path)
  \/ \E path \in PromptPaths : RemovePromptFile(path)

PromptSpec == Init /\ [][PromptNext]_vars

\* =========================================== generate_reading_guide_stream
\* The generation call on its own: the handler extracts the text and creates
\* the record, AIService builds the user message and iterates the provider's
\* generate_stream, which reads the chunks of the remote stream.

\* lengths of the texts a parser returns
ContentLengths == {1, max_content_length - 1, max_content_length,
                   max_content_length + 1, MaxContentLen}

ExtractedTexts == {Digits(n) : n \in ContentLengths}

\* the fixed truncation marker, as one element
TruncationMarker == <<Ch("...(content too long, truncated)")>>

\* the fixed first lines of the user message: a sentence and an empty line
UserMessagePrefix ==
  <<Ch("Please write a reading guide for the following document:"),
    Ch("\n"), Ch("\n")>>

\* variant: a text of exactly max_content_length characters is cut as well
TruncateContent_Inclusive(text) ==
  IF Len(text) >= max_content_length
    THEN Take(text, max_content_length) \o TruncationMarker
    ELSE text

\* the content length limit
TruncateContent(text) ==
  IF Len(text) > max_content_length
    THEN Take(text, max_content_length) \o TruncationMarker
    ELSE text

BuildUserMessage(text) == UserMessagePrefix \o TruncateContent(text)

\* chunks of the remote stream: without choices, with an empty delta, with
\* a delta that carries text
Chunks ==
  {[choices |-> 0], [choices |-> 1, content |-> <<>>]}
    \cup {[choices |-> 1, content |-> f] : f \in Fragments}

Msg(t, d) == [type |-> t, data |-> d]

NotStream == <<ai_models, txns, disk, now, req, pc, events, ai_model,
               literature_id, file_full_path, parts, stream, classified, exc,
               saved_files_info, idx, completed_files, db_before, nfrags,
               yielded, LoaderVars, MigrationVars>>

\* the handler: content = extract_content(...); content_length = len(content);
\* create_literature(..., content_length=content_length); commit
StreamCreateLiterature ==
  /\ provider_pc = "idle"
  /\ \E text \in ExtractedTexts :
       /\ content' = text
       /\ sess' = create_literature(<<>>,
                     SavedInfo(Upload(<<"paper", "md">>, 500, "text"), 0), Len(text))
       /\ db' = sess'
  /\ provider_pc' = "call"
  /\ UNCHANGED <<NotStream, user_message, chunks, messages>>

\* AIService.generate_reading_guide_stream up to the provider call: the
\* prompt is loaded, the content is limited, the user message is built and
\* the provider is obtained
GenerateReadingGuideStream ==
  /\ provider_pc = "call"
  /\ \/ \* load_prompt raises: the prompt file is missing
        /\ provider_pc' = "failed"
        /\ UNCHANGED user_message
     \/ \* _get_provider raises AIException
        /\ user_message' = BuildUserMessage(content)
        /\ provider_pc' = "failed"
     \/ /\ user_message' = BuildUserMessage(content)
        /\ provider_pc' = "client"
  /\ UNCHANGED <<NotStream, content, db, sess, chunks, messages>>

\* generate_stream: the client is built and start is yielded
ProviderStart ==
  /\ provider_pc = "client"
  /\ messages' = Append(messages, Msg("start", <<"generating">>))
  /\ provider_pc' = "create"
  /\ UNCHANGED <<NotStream, content, db, sess, user_message, chunks>>

\* client.chat.completions.create(stream=True): the stream is opened, or
\* the call raises and generate_stream raises AIException
ProviderCreate ==
  /\ provider_pc = "create"
  /\ provider_pc' \in {"read", "raised"}
  /\ UNCHANGED <<NotStream, content, db, sess, user_message, chunks, messages>>

\* variant: a chunk with an empty delta is forwarded as a content message
ProviderChunk_ForwardEmpty ==
  /\ provider_pc = "read"
  /\ Len(chunks) < MaxChunks
  /\ \E chunk \in Chunks :
       /\ chunks' = Append(chunks, chunk)
       /\ messages' = IF chunk.choices > 0
                         THEN Append(messages, Msg("content", chunk.content))
                         ELSE messages
  /\ UNCHANGED <<NotStream, content, db, sess, user_message, provider_pc>>

\* async for chunk in stream: a delta with text is yielded as content
ProviderChunk ==
  /\ provider_pc = "read"
  /\ Len(chunks) < MaxChunks
  /\ \E chunk \in Chunks :
       /\ chunks' = Append(chunks, chunk)
       /\ messages' = IF chunk.choices > 0 /\ chunk.content # <<>>
                         THEN Append(messages, Msg("content", chunk.content))
                         ELSE messages
  /\ UNCHANGED <<NotStream, content, db, sess, user_message, provider_pc>>

\* variant: complete is yielded before the failure is raised
ProviderStreamFail_Complete ==
  /\ provider_pc = "read"
  /\ messages' = Append(messages, Msg("complete", <<"done">>))
  /\ provider_pc' = "raised"
  /\ UNCHANGED <<NotStream, content, db, sess, user_message, chunks>>

\* the remote stream fails while it is read: AIException
ProviderStreamFail ==
  /\ provider_pc = "read"
  /\ provider_pc' = "raised"
  /\ UNCHANGED <<NotStream, content, db, sess, user_message, chunks, messages>>

\* the remote stream is exhausted: complete is yielded
ProviderComplete ==
  /\ provider_pc = "read"
  /\ messages' = Append(messages, Msg("complete", <<"done">>))
  /\ provider_pc' = "done"
  /\ UNCHANGED <<NotStream, content, db, sess, user_message, chunks>>

StreamNext ==
  \/ StreamCreateLiterature
  \/ GenerateReadingGuideStream
  \/ ProviderStart
  \/ ProviderCreate
  \/ ProviderChunk
  \/ ProviderStreamFail
  \/ ProviderComplete

StreamSpec == Init /\ [][StreamNext]_vars

\* ====================================================== database migrations
\* MigrationManager.migrate and MigrationManager.rollback over the migration
\* classes of db_migrations/versions. A version is the position of its
\* 14-digit version string in ascending order.

\* the discovered migration classes, sorted by version
Versions == 1..4

\* target_version of migrate: 0 is None
Targets == {0} \cup Versions

\* steps of rollback
StepCounts == 0..MaxSteps

\* SELECT version ... ORDER BY version
RECURSIVE SortedVersions(_)
SortedVersions(S) ==
  IF S = {} THEN <<>>
  ELSE LET v == CHOOSE x \in S : \A y \in S : x <= y
       IN <<v>> \o SortedVersions(S \ {v})

_get_applied_migrations == SortedVersions(migration_history)

\* s[-steps:]
LastSteps(s, steps) ==
  IF steps = 0 \/ steps >= Len(s) THEN s
  ELSE SubSeq(s, Len(s) - steps + 1, Len(s))

\* reversed(s)
Reversed(s) == [i \in 1..Len(s) |-> s[Len(s) + 1 - i]]

NotMigration == <<ai_models, txns, ProviderVars, LoaderVars, disk, db, sess, now,
                  req, pc, events, ai_model, literature_id, file_full_path,
                  content, parts, stream, classified, exc, saved_files_info, idx,
                  completed_files, db_before, nfrags, yielded>>

\* migrate(target_version): read the history, select the pending migrations
Migrate(target_version) ==
  /\ run.pc \in {"idle", "done", "failed"}
  /\ LET applied == _get_applied_migrations
         pending == SelectSeq(SortedVersions(Versions),
                              LAMBDA v : /\ v \notin migration_history
                                         /\ target_version # 0 => v <= target_version)
     IN run' = [op |-> "migrate", arg |-> target_version, applied |-> applied,
                before |-> schema, todo |-> pending, finished |-> <<>>,
                pc |-> IF pending = <<>> THEN "done" ELSE "upgrade"]
  /\ UNCHANGED <<NotMigration, schema, migration_history>>

\* migration.upgrade(session): the statements and the commit of the migration
\* take effect, or raise
MigrationUpgrade ==
  /\ run.pc = "upgrade"
  /\ \/ /\ schema' = schema \cup {Head(run.todo)}
        /\ run' = [run EXCEPT !.pc = "mark"]
     \/ /\ run' = [run EXCEPT !.pc = "failed"]
        /\ UNCHANGED schema
  /\ UNCHANGED <<NotMigration, migration_history>>

\* _mark_migration_applied: INSERT and commit, or raise
MarkMigrationApplied ==
  /\ run.pc = "mark"
  /\ \/ /\ migration_history' = migration_history \cup {Head(run.todo)}
        /\ run' = [run EXCEPT !.todo = Tail(@),
                              !.finished = Append(@, Head(run.todo)),
                              !.pc = IF Len(run.todo) = 1 THEN "done" ELSE "upgrade"]
     \/ /\ run' = [run EXCEPT !.pc = "failed"]
        /\ UNCHANGED migration_history
  /\ UNCHANGED <<NotMigration, schema>>

\* rollback(steps): read the history, select the versions to roll back
Rollback(steps) ==
  /\ run.pc \in {"idle", "done", "failed"}
  /\ LET applied == _get_applied_migrations
         to_rollback == IF applied = <<>> THEN <<>> ELSE LastSteps(applied, steps)
     IN run' = [op |-> "rollback", arg |-> steps, applied |-> applied,
                before |-> schema, todo |-> Reversed(to_rollback), finished |-> <<>>,
                pc |-> IF to_rollback = <<>> THEN "done" ELSE "downgrade"]
  /\ UNCHANGED <<NotMigration, schema, migration_history>>

\* migration.downgrade(session): takes effect and commits, or raises
MigrationDowngrade ==
  /\ run.pc = "downgrade"
  /\ \/ /\ schema' = schema \ {Head(run.todo)}
        /\ run' = [run EXCEPT !.pc = "unmark"]
     \/ /\ run' = [run EXCEPT !.pc = "failed"]
        /\ UNCHANGED schema
  /\ UNCHANGED <<NotMigration, migration_history>>

\* _unmark_migration: DELETE and commit, or raise
UnmarkMigration ==
  /\ run.pc = "unmark"
  /\ \/ /\ migration_history' = migration_history \ {Head(run.todo)}
        /\ run' = [run EXCEPT !.todo = Tail(@),
                              !.finished = Append(@, Head(run.todo)),
                              !.pc = IF Len(run.todo) = 1 THEN "done" ELSE "downgrade"]
     \/ /\ run' = [run EXCEPT !.pc = "failed"]
        /\ UNCHANGED migration_history
  /\ UNCHANGED <<NotMigration, schema>>

MigrationNext ==
  \/ \E target_version \in Targets : Migrate(target_version)
  \/ MigrationUpgrade
  \/ MarkMigrationApplied
  \/ \E steps \in StepCounts : Rollback(steps)
  \/ MigrationDowngrade
  \/ UnmarkMigration

MigrationSpec == Init /\ [][MigrationNext]_vars

\* ================================================================== claims
Kinds(evs) == [i \in 1..Len(evs) |-> evs[i].event]

IsContent(e) == e.event = "content"

\* the data of the content events, in the order of emission
ContentData(evs) ==
  LET cs == SelectSeq(evs, IsContent) IN [i \in 1..Len(cs) |-> cs[i].data]

\* concatenation of a sequence of texts
RECURSIVE Flatten(_)
Flatten(ts) == IF Len(ts) = 0 THEN <<>> ELSE Flatten(SubSeq(ts, 1, Len(ts) - 1)) \o ts[Len(ts)]

CountKind(evs, k) == Cardinality({i \in 1..Len(evs) : evs[i].event = k})

\* the single-file run has ended without raising
GuideSucceeded ==
  /\ req.kind = "single"
  /\ pc = "done"
  /\ ai_model # 0
  /\ exc = NoExc

GuideEnded == req.kind = "single" /\ pc = "done"

\* the batch loop has just finished a file with file_complete
BatchFileSucceeded ==
  /\ req.kind = "batch"
  /\ pc = "b_file"
  /\ events # <<>>
  /\ events[Len(events)].event = "file_complete"

RowCompleted(rows, id) ==
  /\ id \in 1..Len(rows)
  /\ rows[id].status = STATUS_COMPLETED
  /\ rows[id].reading_guide # Null
  /\ rows[id].tags # Null
  /\ rows[id].description # Null

FailedAfterCreate ==
  /\ exc.kind # "none"
  /\ exc.marked # "none"
  /\ exc.before # Null

\* C4 as claimed: after a failure that follows the creation of the record the
\* row is Failed and differs from its pre-failure value in the status alone.
C4_FailedRecordFrame ==
  FailedAfterCreate =>
    db[literature_id] = [exc.before[1] EXCEPT !.status = STATUS_FAILED]

\* C4, amended: after such a failure the row is its pre-failure value with the
\* status set to Failed when the handler's update to Failed and its commit
\* took effect, and is exactly its pre-failure value (status Processing) when
\* they did not; reading_guide, tags and description are unchanged either way.
C4_FailedRecordFrameBestEffort ==
  FailedAfterCreate =>
    /\ literature_id \in 1..Len(db)
    /\ exc.before[1].status = STATUS_PROCESSING
    /\ db[literature_id] = IF exc.marked = "yes"
                             THEN [exc.before[1] EXCEPT !.status = STATUS_FAILED]
                             ELSE exc.before[1]
    /\ db[literature_id].reading_guide = exc.before[1].reading_guide
    /\ db[literature_id].tags = exc.before[1].tags
    /\ db[literature_id].description = exc.before[1].description

C4_Witness ==
  /\ GuideEnded
  /\ exc.at = "commit_final"
  /\ exc.marked = "yes"
  /\ classified # Null
  /\ db[literature_id].status = STATUS_FAILED

\* C5: no step changes the status of a committed row that is Completed or
\* Failed, no committed row disappears, and the only status changes are
\* Processing -> Completed and Processing -> Failed.
C5_StatusOneWay ==
  [][\A i \in 1..Len(db) :
       /\ i <= Len(db')
       /\ db'[i].status # db[i].status =>
            /\ db[i].status = STATUS_PROCESSING
            /\ db'[i].status \in {STATUS_COMPLETED, STATUS_FAILED}]_vars

C5_Witness ==
  /\ req.kind = "batch"
  /\ pc = "b_file"
  /\ idx = 3
  /\ Len(db) = 1
  /\ db[1].status = STATUS_COMPLETED
  /\ exc.at = "extract"
  /\ exc.marked = "no"

\* C6: when save_file or extract_content failed for the file in progress, the
\* table is what it was when that file was started; and every row, flushed or
\* committed, belongs to an upload of the request that passes validation and
\* whose bytes hold text.
C6_NoRecordWithoutSaveAndExtract ==
  /\ exc.at \in {"save", "extract"} => (db = db_before /\ sess = db_before)
  /\ \A i \in 1..Len(sess) :
       \E k \in 1..Len(req.files) :
         /\ req.files[k].filename = sess[i].original_name
         /\ validate_file(req.files[k]) = "ok"
         /\ req.files[k].body = "text"

C6_Witness ==
  /\ req.kind = "batch"
  /\ pc = "b_file"
  /\ idx = 3
  /\ exc.at = "extract"
  /\ exc.marked = "no"
  /\ Len(db) = 1
  /\ req.files[2].body = "corrupt"

\* C7 as claimed: when the extraction fails in a single-file run, an error
\* event is emitted, the saved file is gone from storage and no record was
\* created.
C7_ExtractFailureDeletesFile ==
  (GuideEnded /\ exc.at = "extract") =>
    /\ events[Len(events)].event = "error"
    /\ file_full_path # Null
    /\ file_full_path[1] \notin disk
    /\ db = db_before

\* the provider stream of a single-file run failed after a fragment
GuideStreamFailedMidway ==
  /\ GuideEnded
  /\ exc.at = "stream"
  /\ Len(yielded) >= 1

C9_FileKeptOnceRecordExists ==
  (GuideEnded /\ exc.at \in {"update", "commit_final"} /\ exc.before # Null) =>
    file_full_path[1] \in disk

\* no profile resolves for the request: the given id names no profile of the
\* current user, or no id is given and the user has no enabled default
NoProfile ==
  IF req.aiModelId # 0
    THEN ~ \E m \in ai_models : m.id = req.aiModelId /\ m.user_id = CurrentUser
    ELSE ~ \E m \in ai_models :
             m.user_id = CurrentUser /\ m.is_default = 1 /\ m.status = 1

\* C10: a single-file request for which no profile resolves emits one error
\* event and ends; nothing is saved and no record is created.
C10_NoProfileNoEffect ==
  (req.kind = "single" /\ NoProfile) =>
    /\ pc \in {"g_resolve", "done"}
    /\ pc = "done" => Kinds(events) = <<"error">>
    /\ disk = {}
    /\ file_full_path = Null
    /\ db = <<>>
    /\ sess = <<>>

C10_Witness ==
  /\ GuideEnded
  /\ NoProfile
  /\ req.aiModelId = 2
  /\ Kinds(events) = <<"error">>

\* the single-file run has ended and did not succeed
GuideFailed == GuideEnded /\ ~GuideSucceeded

\* C11: a single-file run that ended without success has emitted exactly one
\* error event, as its last event, and no complete event; when an exception
\* was handled the event carries the message of that exception (prefixed in
\* the generic branch), also when the update of the record to Failed failed.
C11_OneErrorEvent ==
  GuideFailed =>
    /\ CountKind(events, "error") = 1
    /\ events[Len(events)].event = "error"
    /\ CountKind(events, "complete") = 0
    /\ exc.kind = "lit" => events[Len(events)].data = <<exc.at>>
    /\ exc.kind = "other" =>
         events[Len(events)].data = <<"generation failed: ", exc.at>>
    /\ exc.kind = "none" => ai_model = 0

C11_Witness ==
  /\ GuideFailed
  /\ exc.at = "update"
  /\ exc.before # Null
  /\ exc.marked = "no"
  /\ db[literature_id].status = STATUS_PROCESSING
  /\ events[Len(events)].data = <<"update">>

\* the batch generator has started after a successful upfront save phase
BatchGeneratorRunning ==
  /\ req.kind = "batch"
  /\ pc \notin {"idle", "b_save", "done"}

\* the batch request has ended after its generator ran
BatchGeneratorEnded ==
  /\ req.kind = "batch"
  /\ pc = "done"
  /\ Len(saved_files_info) = Len(req.files)

\* C12 as claimed: once the upfront save phase has succeeded the stream ends,
\* and it ends with exactly one batch_complete event as its final event.
C12_AlwaysBatchComplete ==
  BatchGeneratorEnded =>
    /\ CountKind(events, "batch_complete") = 1
    /\ events[Len(events)].event = "batch_complete"

\* C12, amended: once the upfront save phase has succeeded the generator
\* ends; when an AI profile resolved, the stream ends with exactly one
\* batch_complete event as its final event, however many files failed; when
\* no profile resolved, the stream is a single error event and carries no
\* batch_complete.
C12_BatchCompleteWhenProfileResolved ==
  /\ [](BatchGeneratorEnded =>
          IF ai_model # 0
            THEN /\ CountKind(events, "batch_complete") = 1
                 /\ events[Len(events)].event = "batch_complete"
                 /\ CountKind(events, "error") = 0
            ELSE Kinds(events) = <<"error">>)
  /\ [](\A i \in 1..Len(events) :
          events[i].event = "batch_complete" => (i = Len(events) /\ pc = "done"))
  /\ (BatchGeneratorRunning ~> BatchGeneratorEnded)

C12_Witness ==
  /\ BatchGeneratorEnded
  /\ Len(req.files) = 2
  /\ completed_files = 0
  /\ CountKind(events, "file_error") = 2
  /\ events[Len(events)].event = "batch_complete"

\* C13 as claimed: the handling of a failure of file idx leaves the stored
\* file of every other file of the batch in storage and the row of every
\* other record unchanged, and the loop goes on with the next file.
C13_FailureIsolated ==
  [][pc = "b_except" =>
       /\ \A k \in 1..Len(saved_files_info) :
            (k # idx /\ saved_files_info[k].file_full_path \in disk)
              => saved_files_info[k].file_full_path \in disk'
       /\ Len(db') = Len(db)
       /\ \A i \in 1..Len(db) : i # literature_id => db'[i] = db[i]
       /\ pc' = "b_file"
       /\ idx' = idx + 1]_vars

SavedPaths == {saved_files_info[k].file_full_path : k \in 1..Len(saved_files_info)}

\* C14: in a batch request nothing is emitted and no step of the generator
\* (hence no provider call) is taken before every file of the request has
\* been saved, and the generator starts with all of them in storage; when the
\* save of a file fails the request ends, none of the files saved before it
\* is left in storage, no record exists and no event was emitted.
C14_UpfrontSave ==
  req.kind = "batch" =>
    /\ (events # <<>> \/ pc \notin {"b_save", "done"} \/ nfrags > 0
           \/ stream # "idle" \/ classified # Null \/ db # <<>> \/ sess # <<>>)
         => (Len(saved_files_info) = Len(req.files) /\ exc.at # "save")
    /\ pc = "b_resolve" => SavedPaths \subseteq disk
    /\ exc.at = "save" =>
         /\ pc = "done"
         /\ Len(saved_files_info) < Len(req.files)
         /\ SavedPaths \cap disk = {}
         /\ db = <<>>
         /\ sess = <<>>
         /\ events = <<>>
         /\ stream = "idle"

C14_Witness ==
  /\ req.kind = "batch"
  /\ exc.at = "save"
  /\ Len(req.files) = 2
  /\ Len(saved_files_info) = 1
  /\ disk = {}

FileEvents == {"file_start", "file_progress", "file_complete", "file_error"}

IsFileEvent(p) == events[p].event \in FileEvents

IsTerminal(p) == events[p].event \in {"file_complete", "file_error"}

\* the event at position p is a per-file event with the prefix "<i>|"
InBlock(p, i) ==
  /\ IsFileEvent(p)
  /\ Len(events[p].data) >= 2
  /\ events[p].data[1] = Idx(i)
  /\ events[p].data[2] = "|"

\* positions of the events whose payload carries the prefix "<i>|"
Block(i) == {p \in 1..Len(events) : InBlock(p, i)}

Least(S) == CHOOSE p \in S : \A q \in S : p <= q

Greatest(S) == CHOOSE p \in S : \A q \in S : q <= p

C16_StoredPathsUnique ==
  \A k, l \in 1..Len(saved_files_info) :
    k # l => saved_files_info[k].file_full_path # saved_files_info[l].file_full_path

\* C17 as claimed: every committed record with status Completed has a
\* file_path that is the path of a file in storage.
C17_CompletedHasFile ==
  \A i \in 1..Len(db) :
    db[i].status = STATUS_COMPLETED => db[i].file_path \in disk

Users == {m.user_id : m \in ai_models}

DefaultsOf(u) == {m \in ai_models : m.user_id = u /\ m.is_default = 1}

\* C18 as claimed: after any sequence of profile requests, overlapping or
\* not, at most one profile of a user is flagged default.
C18_AtMostOneDefault ==
  \A u \in Users : Cardinality(DefaultsOf(u)) <= 1

\* the classification step has produced its result
Parsed == classified # Null /\ classified[1].result # <<>>

Min(a, b) == IF a < b THEN a ELSE b

\* C19: whatever the provider returned, the result has at most 5 tags and a
\* description of at most 200 characters; and when the response is a JSON
\* object with a list tags of n entries and a string desc of m characters,
\* bare or inside a fenced code block (plain or marked json), the result is
\* the first min(5, n) tags in their order and the first min(200, m)
\* characters of desc.
C19_ParsedClassification ==
  Parsed =>
    LET r == classified[1].response
        out == classified[1].result
    IN /\ Len(out[1]) <= 5
       /\ Len(out[2]) <= 200
       /\ r.kind = "content" =>
            \A l \in Leads, n \in TagCounts, m \in DescLens :
              \A f \in {<<<<>>, <<>>>>, <<Fence, Fence>>, <<FenceJson, Fence>>} :
                r.content = Wrap(l, f[1], f[2], <<Doc(ClassObject(n, m))>>) =>
                  /\ out[1] = [i \in 1..Min(5, n) |-> ToString(i)]
                  /\ out[2] = [i \in 1..Min(200, m) |-> Ch(ToString(i))]

C19_Witness ==
  /\ Parsed
  /\ classified[1].response.kind = "content"
  /\ classified[1].response.content =
       Wrap(<<Ch(" ")>>, FenceJson, Fence, <<Doc(ClassObject(MaxTags, MaxDescLen))>>)
  /\ Len(classified[1].result[1]) = 5
  /\ Len(classified[1].result[2]) = 200

\* C20 as claimed: a response that is not valid JSON yields the empty tag list
\* and the fixed fallback description.
C20_MalformedGivesFallback ==
  (/\ Parsed
   /\ classified[1].response.kind = "content"
   /\ classified[1].response.content \in MalformedContents)
    => classified[1].result = <<<<>>, FallbackDescription>>

\* the classification step ran and did not obtain a well-formed result: the
\* call raised, the text is not JSON, or the JSON value is not an object with
\* a string desc
ClassificationFailed ==
  /\ classified # Null
  /\ LET r == classified[1].response IN
       \/ r.kind = "error"
       \/ json_loads(Unfence(r.content)) = Null
       \/ json_loads(Unfence(r.content))[1].kind # "object"
       \/ ~IsText(Get(json_loads(Unfence(r.content))[1], "desc", <<>>))

\* C21 as claimed: when the classification step failed after a completed
\* stream, no exception is raised because of it (the only failures left are
\* those of the database: the update or the final commit), and a run that
\* then ends without exception has committed the record as Completed with the
\* streamed guide and emitted complete (file_complete in batch mode) last.
C21_ClassificationNeverFailsPipeline ==
  ClassificationFailed =>
    /\ exc.kind # "none" => exc.at \in {"update", "commit_final"}
    /\ (GuideSucceeded \/ BatchFileSucceeded) =>
         /\ RowCompleted(db, literature_id)
         /\ db[literature_id].reading_guide = Some(Flatten(yielded))
         /\ events[Len(events)].event \in {"complete", "file_complete"}

\* the document text of the user message: what follows the fixed first lines
DocumentText == SubSeq(user_message, 4, Len(user_message))

\* C22: once the user message is built, its document text is the extracted
\* text itself when that has at most 30,000 characters, and otherwise the
\* first 30,000 characters of it followed by the truncation marker; the
\* content_length of the record is the length of the whole extracted text.
C22_ContentTruncation ==
  user_message # <<>> =>
    LET L == Len(content) IN
    /\ L <= 30000 => DocumentText = content
    /\ L > 30000 => DocumentText = SubSeq(content, 1, 30000) \o TruncationMarker
    /\ db[1].content_length = L

C22_Witness ==
  /\ provider_pc = "done"
  /\ Len(content) = 30001
  /\ Len(user_message) = 30004
  /\ user_message[30003] = Ch("30000")
  /\ db[1].content_length = 30001

MessageTypes == [i \in 1..Len(messages) |-> messages[i].type]

CountType(t) == Cardinality({i \in 1..Len(messages) : messages[i].type = t})

IsContentChunk(chunk) == chunk.choices > 0 /\ chunk.content # <<>>

\* the text of the chunks that carry some, in the order they were read
ChunkTexts ==
  LET cs == SelectSeq(chunks, IsContentChunk) IN [i \in 1..Len(cs) |-> cs[i].content]

\* the provider's generate_stream has been entered
ProviderRunning == provider_pc \in {"create", "read", "done", "raised"}

C24_ExtractedTextNotBlank ==
  (pc = "x_done" /\ exc.kind = "none") => Strip(content) # <<>>

\* the step emits complete (file_complete in batch mode)
EmitsCompletion ==
  /\ Len(events') = Len(events) + 1
  /\ events'[Len(events')].event \in {"complete", "file_complete"}

\* the update to Completed or its commit failed and the handler has run
FinalizationFailed ==
  /\ exc.at \in {"update", "update_value", "commit_final"}
  /\ exc.marked # "none"

C26_ReloadClearsWholeCache ==
  [][\A A \in PromptNames :
       ReloadPrompt(A) =>
         /\ \A j \in 1..Len(prompt_cache') :
              /\ prompt_cache'[j].key = A
              /\ prompt_files[PromptFileName(A)] # Null
              /\ prompt_result'.outcome = [kind |-> "text", text |-> prompt_cache'[j].value]
         /\ Len(prompt_cache') <= 1
         /\ prompt_result'.outcome.kind = "text" => Len(prompt_cache') = 1]_vars

\* a reload that found the text of another name in the cache
C26_Witness ==
  /\ prompt_result.op = "reload_prompt"
  /\ prompt_result.outcome.kind = "text"
  /\ \E i \in 1..Len(prompt_result.before) : prompt_result.before[i].key # prompt_result.name
  /\ Len(prompt_cache) = 1

\* C26 as claimed: reload_prompt(A) leaves the cached entry of every other
\* name B in the cache, so that a later load_prompt(B) returns the text that
\* was cached before the reload.
C26_ReloadInvalidatesOneName ==
  [][\A A \in PromptNames :
       ReloadPrompt(A) =>
         \A i \in 1..Len(prompt_cache) :
           prompt_cache[i].key # A =>
             \E j \in 1..Len(prompt_cache') : prompt_cache'[j] = prompt_cache[i]]_vars

C28_NoOrphanFiles ==
  BatchGeneratorEnded =>
    \A p \in SavedPaths :
      \/ p \notin disk
      \/ \E i \in 1..Len(db) : db[i].file_path = p

\* no migrate or rollback run is under way
NoRunUnderWay == run.pc \in {"idle", "done", "failed"}

Ascending(s) == \A i, j \in 1..Len(s) : i < j => s[i] < s[j]

\* C29 as claimed: whenever no run is under way, failed runs included, the
\* versions recorded in migration_history are exactly the versions whose
\* upgrade is in effect; a migrate run applies pending versions in ascending
\* order, and the versions after the one in progress or failed are not
\* recorded and their upgrades are as they were when the run started.
C29_HistoryMatchesSchema ==
  /\ NoRunUnderWay => migration_history = schema
  /\ run.op = "migrate" =>
       /\ Ascending(run.finished \o run.todo)
       /\ \A i \in 1..Len(run.finished) : run.finished[i] \in migration_history
       /\ \A i \in 2..Len(run.todo) :
            /\ run.todo[i] \notin migration_history
            /\ run.todo[i] \in schema <=> run.todo[i] \in run.before

\* C30 as claimed: a successful rollback(steps) has downgraded and unmarked
\* exactly the min(steps, number of applied versions) highest applied
\* versions, in descending order, and the other history entries are as before.
C30_RollbackExactlySteps ==
  (run.op = "rollback" /\ run.pc = "done") =>
    LET n == Min(run.arg, Len(run.applied))
        highest == SubSeq(run.applied, Len(run.applied) - n + 1, Len(run.applied))
    IN /\ run.finished = Reversed(highest)
       /\ migration_history =
            {run.applied[k] : k \in 1..Len(run.applied)} \ {highest[k] : k \in 1..n}

====
